---- MODULE Spec2Model ----
(***************************************************************************)
(* A model of logging_system.py: the AdvancedLogger facade, its per-thread *)
(* context store, the record it builds for every emission, the three       *)
(* handlers it attaches (console, <name>.log, <name>_errors.log) and the   *)
(* size-based rotation of the two files.                                   *)
(***************************************************************************)
EXTENDS Integers, Sequences, FiniteSets, TLC

VARIABLES
    log_level,       \* AdvancedLogger.log_level, also the console handler's level
    max_file_size,   \* maxBytes of both rotating handlers
    backup_count,    \* backupCount of both rotating handlers
    empty_rollover,  \* whether the runtime's shouldRollover also rolls an empty file
    current,         \* self._context.current, one slot per thread
    frames,          \* per thread: the active `with` scopes (context / timer), innermost last
    last,            \* the last facade call made: its thread, operation and outcome
    nextId,          \* number of uuid4 values drawn so far
    clock,           \* time.time()
    console,         \* lines written to sys.stdout by the console handler
    files,           \* per rotating handler: the current file, its numbered backups,
                     \* and three tallies: rollovers done, lines deleted with a
                     \* backup, lines written
    emitted,         \* per rotating handler: what its last emit() saw and did
    lock,            \* per handler: the thread holding Handler.lock, or NoThread
    pc,              \* per thread: where it is inside logger.handle(record)
    rec,             \* per thread: the record it is dispatching
    nrec,            \* number of records made so far
    broken,          \* the streams that fail just now: of a sink (disk full,
                     \* permission revoked), or "stderr" (sys.stderr is closed)
    registry,        \* logging.getLogger's loggers by name: level and handlers
    facades,         \* the AdvancedLogger objects constructed so far, in order
    default_logger,  \* _default_logger: 0 for None, or the index of a facade
    disk             \* the directories and files created so far

vars == << log_level, max_file_size, backup_count, empty_rollover, current, frames,
           last, nextId, clock, console, files, emitted,
           lock, pc, rec, nrec, broken, registry, facades, default_logger, disk >>

(***************************************************************************)
(* Bounds of the model.                                                    *)
(***************************************************************************)
MaxDepth == 2        \* nesting depth of `with` scopes per thread
MaxIds == 2          \* uuid4 values drawn
MaxRecords == 3      \* records made
MaxCalls == 2        \* leveled calls made where every method and field is tried
MaxSharedDepth == 1  \* nesting depth per thread where two threads interleave
MaxSharedCalls == 1  \* leveled calls made where two threads share the store
MaxSharedBackups == 1 \* largest backup_count where two threads emit
MaxClock == 2        \* clock ticks
MaxMsgLen == 2       \* length of a message
MaxFileSize == 7     \* largest max_file_size tried
MaxBackups == 2      \* largest backup_count tried
MaxFacades == 2      \* AdvancedLogger objects constructed

Threads == {"t1", "t2"}
NoThread == "none"

(***************************************************************************)
(* Values.  Every value is a record with a `kind`, so that any two can be  *)
(* compared.                                                               *)
(***************************************************************************)
Unset == [kind |-> "unset"]           \* the attribute does not exist (hasattr is False)
None == [kind |-> "None"]
Str(s) == [kind |-> "str", s |-> s]
Num(n) == [kind |-> "num", n |-> n]
Uuid(n) == [kind |-> "uuid", n |-> n]  \* the n-th value of str(uuid.uuid4())

\* logging.DEBUG .. logging.CRITICAL, as passed by debug() .. critical()
DEBUG == 10
INFO == 20
WARNING == 30
ERROR == 40
CRITICAL == 50
Levels == {DEBUG, INFO, WARNING, ERROR, CRITICAL}

\* bool(v) as used by `if old_context:` and `if context:`; a dataclass
\* instance defines neither __bool__ nor __len__ and is always true.
\* An exception object is true unless its class defines __bool__ or __len__
\* otherwise (`if exception:` in error()).
Truthy(v) == /\ v.kind \notin {"None", "unset"}
             /\ v.kind = "exception" => v.truthy

\* A LogContext whose user_id is carried over where none is passed
LogContextKeepsUser(kwargs, by) ==
    [kind |-> "LogContext",
     correlation_id |-> kwargs.correlation_id,
     user_id |-> IF "user_id" \in DOMAIN kwargs THEN kwargs.user_id ELSE Str("u1"),
     session_id |-> IF "session_id" \in DOMAIN kwargs THEN kwargs.session_id ELSE None,
     request_id |-> IF "request_id" \in DOMAIN kwargs THEN kwargs.request_id ELSE None,
     service_name |-> Str("logging-service"),
     version |-> Str("1.0.0"),
     by |-> by]

\* LogContext(**kwargs): correlation_id is required, the rest default.
\* `by` is the identity of the object: the thread that constructed it.
LogContext(kwargs, by) ==
    [kind |-> "LogContext",
     correlation_id |-> kwargs.correlation_id,
     user_id |-> IF "user_id" \in DOMAIN kwargs THEN kwargs.user_id ELSE None,
     session_id |-> IF "session_id" \in DOMAIN kwargs THEN kwargs.session_id ELSE None,
     request_id |-> IF "request_id" \in DOMAIN kwargs THEN kwargs.request_id ELSE None,
     service_name |-> Str("logging-service"),
     version |-> Str("1.0.0"),
     by |-> by]

\* The keyword arguments a caller passes to context(): with or without an
\* own correlation_id, with or without a user_id.
ContextKwargs ==
    { [user_id |-> Str("u1")],
      [correlation_id |-> Str("c1")] }

\* The LogContext objects thread t builds itself and hands to set_context().
OwnContexts(t) ==
    { LogContext([correlation_id |-> Str("c2"), user_id |-> Str("u2")], t) }

(***************************************************************************)
(* Context store: threading.local() with one attribute, `current`.         *)
(***************************************************************************)
\* self._context.current = context, in thread t
StoreShared(cur, t, c) == [u \in Threads |-> c]
Store(cur, t, c) == [cur EXCEPT ![t] = c]

\* getattr(self._context, 'current', None), in thread t
get_context(cur, t) == IF cur[t] = Unset THEN None ELSE cur[t]

\* hasattr / delattr of `current`, in thread t
Clear(cur, t) == IF cur[t] # Unset THEN [cur EXCEPT ![t] = Unset] ELSE cur

\* the finally block of context(): put old_context back, or clear
RestoreAlwaysClear(cur, t, old) == Clear(cur, t)
Restore(cur, t, old) == IF Truthy(old) THEN Store(cur, t, old) ELSE Clear(cur, t)

Idle(t) == pc[t] = "idle"

\* Bookkeeping: the innermost active scope has had a scope opened inside it.
MarkNested(fs) ==
    IF fs = << >> THEN fs ELSE [fs EXCEPT ![Len(fs)].nested = TRUE]
NoCall == [t |-> NoThread, op |-> "none"]
LastMade == last.op = "log" /\ last.out.made

SinkUnchanged == UNCHANGED << console, files, emitted, lock, pc, rec, nrec >>
ProcessUnchanged == UNCHANGED << registry, facades, default_logger, disk >>
ConfigUnchanged ==
    /\ UNCHANGED << log_level, max_file_size, backup_count, empty_rollover, broken >>
    /\ ProcessUnchanged

SetContext(t, c) ==
    /\ Idle(t)
    /\ current' = Store(current, t, c)
    /\ last' = [t |-> t, op |-> "set_context"]
    /\ UNCHANGED << frames, nextId, clock >>
    /\ SinkUnchanged /\ ConfigUnchanged

GetContext(t) ==
    /\ Idle(t)
    /\ last' = [t |-> t, op |-> "get_context", result |-> get_context(current, t)]
    /\ UNCHANGED << current, frames, nextId, clock >>
    /\ SinkUnchanged /\ ConfigUnchanged

ClearContext(t) ==
    /\ Idle(t)
    /\ current' = Clear(current, t)
    /\ last' = [t |-> t, op |-> "clear_context"]
    /\ UNCHANGED << frames, nextId, clock >>
    /\ SinkUnchanged /\ ConfigUnchanged

\* if 'correlation_id' not in kwargs: kwargs['correlation_id'] = str(uuid.uuid4())
AlwaysGenerated(kwargs, id) ==
    [k \in DOMAIN kwargs \cup {"correlation_id"} |->
        IF k = "correlation_id" THEN id ELSE kwargs[k]]
WithCorrelationId(kwargs, id) ==
    IF "correlation_id" \notin DOMAIN kwargs
    THEN [k \in DOMAIN kwargs \cup {"correlation_id"} |->
             IF k = "correlation_id" THEN id ELSE kwargs[k]]
    ELSE kwargs

\* with logger.context(**kwargs) as cid:   -- up to the yield
ContextEnter(t, kwargs) ==
    /\ Idle(t)
    /\ Len(frames[t]) < MaxDepth
    /\ LET generate == "correlation_id" \notin DOMAIN kwargs
           kw == WithCorrelationId(kwargs, Uuid(nextId + 1))
           old_context == get_context(current, t)
           new_context == LogContext(kw, t)
       IN /\ generate => nextId < MaxIds
          /\ nextId' = IF generate THEN nextId + 1 ELSE nextId
          /\ frames' = [frames EXCEPT ![t] = Append(MarkNested(@),
                           [kind |-> "context", old_context |-> old_context,
                            new_context |-> new_context, before |-> current[t],
                            nested |-> FALSE])]
          /\ current' = Store(current, t, new_context)
          /\ last' = [t |-> t, op |-> "context_enter", kwargs |-> kwargs,
                      yielded |-> new_context.correlation_id]
    /\ UNCHANGED clock
    /\ SinkUnchanged /\ ConfigUnchanged

\* leaving the with block of context(), normally or because the body raised
ContextExit(t, raising) ==
    /\ Idle(t)
    /\ frames[t] # << >>
    /\ LET f == frames[t][Len(frames[t])]
       IN /\ f.kind = "context"
          /\ current' = Restore(current, t, f.old_context)
          /\ last' = [t |-> t, op |-> "context_exit", raised |-> raising,
                          before |-> f.before, nested |-> f.nested,
                          changed |-> current[t] # f.new_context]
    /\ frames' = [frames EXCEPT ![t] = SubSeq(@, 1, Len(@) - 1)]
    /\ UNCHANGED << nextId, clock >>
    /\ SinkUnchanged /\ ConfigUnchanged

(***************************************************************************)
(* Records.  A LogRecord is its attribute dictionary: Unset where the      *)
(* attribute does not exist.                                               *)
(***************************************************************************)
\* The attribute names the record builder and the formatters read or write,
\* and the names a caller may pass as a field.
ReservedNames == {"context", "correlation_id", "duration", "timestamp", "level",
                  "logger", "message", "module", "function", "line"}
Attrs == {"name", "msg", "levelname", "levelno", "module", "funcName", "lineno",
          "exc_info", "operation"} \cup ReservedNames

LevelName(level) ==
    CASE level = DEBUG -> "DEBUG"
      [] level = INFO -> "INFO"
      [] level = WARNING -> "WARNING"
      [] level = ERROR -> "ERROR"
      [] level = CRITICAL -> "CRITICAL"

\* debug() .. critical(): the level each passes on
MethodLevel(method) ==
    CASE method = "debug" -> DEBUG
      [] method = "info" -> INFO
      [] method = "warning" -> WARNING
      [] method = "error" -> ERROR
      [] method = "critical" -> CRITICAL
Methods == {"debug", "info", "warning", "error", "critical"}

\* (type(exception), exception, exception.__traceback__)
ExcInfo(exception) ==
    [kind |-> "exc_info", type |-> exception.type, value |-> exception]

\* self.logger.makeRecord(name, level, fn="", lno=0, msg, args=(), exc_info)
MakeRecord(level, msg, exc_info) ==
    [a \in Attrs |->
        CASE a = "name" -> Str("app")
          [] a = "msg" -> Str(msg)
          [] a = "levelname" -> Str(LevelName(level))
          [] a = "levelno" -> Num(level)
          [] a = "module" -> Str("")
          [] a = "funcName" -> None
          [] a = "lineno" -> Num(0)
          [] a = "exc_info" -> exc_info
          [] OTHER -> Unset]

\* `if context:` record.context = context; record.correlation_id = ...
AddContext(record, context) ==
    IF Truthy(context)
    THEN [record EXCEPT !["context"] = context,
                        !["correlation_id"] = context.correlation_id]
    ELSE record

\* for key, value in kwargs.items(): setattr(record, key, value)
SetAttrs(record, kwargs) ==
    [a \in Attrs |-> IF a \in DOMAIN kwargs THEN kwargs[a] ELSE record[a]]

\* Binding the call's arguments: `message` is a parameter of every leveled
\* method, and `level` one of _log_with_context, which all but error() call
\* with **kwargs; a field of that name is a second value for the parameter.
Binds(method, kwargs) ==
    /\ "message" \notin DOMAIN kwargs
    /\ method # "error" => "level" \notin DOMAIN kwargs

(***************************************************************************)
(* Formatters.                                                             *)
(***************************************************************************)
\* dataclasses.asdict(record.context)
AsDict(c) ==
    IF c.kind = "LogContext"
    THEN [kind |-> "dict", correlation_id |-> c.correlation_id, user_id |-> c.user_id,
          session_id |-> c.session_id, request_id |-> c.request_id,
          service_name |-> c.service_name, version |-> c.version]
    ELSE [kind |-> "TypeError"]

\* The attributes the "extra fields" loop of StructuredFormatter.format skips.
SkippedAttrs == {"name", "msg", "levelname", "levelno", "module", "lineno", "funcName",
                 "exc_info", "context", "correlation_id", "duration"}

JsonKeys == {"timestamp", "level", "logger", "message", "module", "function", "line",
             "context", "correlation_id", "duration_ms", "exception", "operation"}

\* StructuredFormatter.format raises where asdict() is given no dataclass.
StructuredRenders(record) ==
    record["context"] # Unset => record["context"].kind = "LogContext"

\* StructuredFormatter.format: the log_entry it serializes (Unset: no such key)
StructuredFormat(record, now) ==
    LET entry ==
          [k \in JsonKeys |->
              CASE k = "timestamp" -> [kind |-> "time", at |-> now]
                [] k = "level" -> record["levelname"]
                [] k = "logger" -> record["name"]
                [] k = "message" -> record["msg"]
                [] k = "module" -> record["module"]
                [] k = "function" -> record["funcName"]
                [] k = "line" -> record["lineno"]
                [] k = "context" -> IF record["context"] # Unset
                                    THEN AsDict(record["context"]) ELSE Unset
                [] k = "correlation_id" -> record["correlation_id"]
                [] k = "duration_ms" -> record["duration"]
                [] k = "exception" ->
                      IF Truthy(record["exc_info"])
                      THEN [kind |-> "dict", type |-> record["exc_info"].type,
                            message |-> record["exc_info"].value.message,
                            traceback |-> record["exc_info"].value.type]
                      ELSE Unset
                [] OTHER -> Unset]
    IN [k \in JsonKeys |->
           IF k \in (Attrs \ SkippedAttrs) /\ record[k] # Unset THEN record[k] ELSE entry[k]]

\* ConsoleFormatter.format raises where the correlation id cannot be sliced
\* or the duration cannot be formatted with :.2f.
ConsoleRenders(record) ==
    /\ record["correlation_id"] # Unset => record["correlation_id"].kind \in {"str", "uuid"}
    /\ record["duration"] # Unset => record["duration"].kind = "num"

\* The length of the line a rotating handler writes for the record:
\* "%s\n" % self.format(record).  The message is the part of the rendering
\* that varies here; EnvelopeLen stands for the rest of the JSON text.
EnvelopeLen == 1
LineLen(record) == EnvelopeLen + Len(record["msg"].s) + 1

(***************************************************************************)
(* Handlers.                                                               *)
(***************************************************************************)
FileSinks == {"file", "errors"}
Sinks == {"console"} \cup FileSinks

\* The order of self.logger.handlers after _setup_handlers
HandlerOrder == << "console", "file", "errors" >>

NoEmit == [id |-> 0]
NoFile == [exists |-> FALSE, lines |-> << >>]

\* setLevel() of each handler in _setup_handlers
HandlerLevelErrorsAtWarning(s, facade_level) ==
    CASE s = "console" -> facade_level
      [] s = "file" -> DEBUG
      [] s = "errors" -> WARNING
HandlerLevel(s, facade_level) ==
    CASE s = "console" -> facade_level
      [] s = "file" -> DEBUG
      [] s = "errors" -> ERROR

\* Logger.callHandlers: `if record.levelno >= hdlr.level`
Admits(s, record, facade_level) == record["levelno"].n >= HandlerLevel(s, facade_level)

\* self.logger.handle(record): Logger.handle filters, it does not compare
\* the record's level with the logger's; every handler is asked.
Handled(record, facade_level) == {s \in Sinks : Admits(s, record, facade_level)}

RECURSIVE SumLen(_)
SumLen(lines) == IF lines = << >> THEN 0 ELSE Head(lines).len + SumLen(Tail(lines))

\* RotatingFileHandler.shouldRollover, n the length of the pending line
ShouldRolloverStrict(h, n, maxBytes, rollEmpty) ==
    /\ maxBytes > 0
    /\ rollEmpty \/ SumLen(h.cur) > 0
    /\ SumLen(h.cur) + n > maxBytes
ShouldRollover(h, n, maxBytes, rollEmpty) ==
    /\ maxBytes > 0
    /\ rollEmpty \/ SumLen(h.cur) > 0
    /\ SumLen(h.cur) + n >= maxBytes

\* The loop of doRollover: for i in range(backupCount - 1, 0, -1), rename
\* <base>.i to <base>.(i+1), removing the target first where it exists.
RECURSIVE ShiftBackups(_, _)
ShiftBackups(h, i) ==
    IF i < 1 THEN h
    ELSE IF h.backups[i].exists
         THEN ShiftBackups(
                 [h EXCEPT !.backups = [@ EXCEPT ![i + 1] = h.backups[i], ![i] = NoFile],
                           !.evicted = @ + IF h.backups[i + 1].exists
                                           THEN Len(h.backups[i + 1].lines) ELSE 0],
                 i - 1)
         ELSE ShiftBackups(h, i - 1)

\* RotatingFileHandler.doRollover
DoRolloverKeepAll(h, backupCount) ==
    [h EXCEPT !.rolls = @ + 1]
DoRollover(h, backupCount) ==
    IF backupCount > 0
    THEN LET g == ShiftBackups(h, backupCount - 1)
         IN [g EXCEPT !.backups = [@ EXCEPT ![1] = [exists |-> TRUE, lines |-> g.cur]],
                      !.evicted = @ + IF g.backups[1].exists
                                      THEN Len(g.backups[1].lines) ELSE 0,
                      !.cur = << >>,
                      !.rolls = @ + 1]
    ELSE [h EXCEPT !.rolls = @ + 1]

\* stream.write(msg + self.terminator)
WriteAtFront(h, line) == [h EXCEPT !.cur = << line >> \o @, !.writes = @ + 1]
Write(h, line) == [h EXCEPT !.cur = Append(@, line), !.writes = @ + 1]

\* BaseRotatingHandler.emit under the handler's lock
EmitRotating(h, line, maxBytes, backupCount, rollEmpty) ==
    IF ShouldRollover(h, line.len, maxBytes, rollEmpty)
    THEN Write(DoRollover(h, backupCount), line)
    ELSE Write(h, line)

\* What the emit saw and did: the size it found, the length it wrote, and
\* how many rollovers it made.
EmitNote(h, g, line) ==
    [id |-> line.id, size |-> SumLen(h.cur), n |-> line.len, rolled |-> g.rolls - h.rolls,
     line |-> line, prior |-> h.cur, prior_backups |-> h.backups,
     prior_evicted |-> h.evicted]

\* What emit() of handler s meets on this record: its formatter raising,
\* its stream raising, or nothing.
RenderingError == [kind |-> "exception", type |-> "TypeError", message |-> "format",
                   isException |-> TRUE, truthy |-> TRUE]
OSError == [kind |-> "exception", type |-> "OSError", message |-> "write",
            isException |-> TRUE, truthy |-> TRUE]
Renders(s, record) ==
    IF s \in FileSinks THEN StructuredRenders(record) ELSE ConsoleRenders(record)
EmitFailure(s, record) ==
    IF ~Renders(s, record) THEN RenderingError
    ELSE IF s \in broken THEN OSError
    ELSE None

\* `except Exception: self.handleError(record)` in emit(): the failure is
\* reported on sys.stderr and goes no further, unless that write fails with
\* something other than an OSError, as a write to a closed file does.
ClosedFileError == [kind |-> "exception", type |-> "ValueError",
                    message |-> "I/O operation on closed file.",
                    isException |-> TRUE, truthy |-> TRUE]
HandleError(e) == IF "stderr" \in broken THEN ClosedFileError ELSE None

\* What self.logger.handle(record) raises to the call: what the first
\* handler to fail lets out of its emit().
RECURSIVE Propagated(_, _, _)
Propagated(record, handled, i) ==
    IF i > Len(HandlerOrder) THEN None
    ELSE LET s == HandlerOrder[i]
             e == IF s \in handled THEN EmitFailure(s, record) ELSE None
             out == IF e = None THEN None ELSE HandleError(e)
         IN IF out # None THEN out ELSE Propagated(record, handled, i + 1)

(***************************************************************************)
(* The leveled methods, each a whole call: record, context, fields and the *)
(* three handlers in turn (used where no second thread emits).             *)
(***************************************************************************)
NoFields == [k \in {} |-> None]

\* Timer scopes open on any thread: each still has a record to emit at exit.
RECURSIVE CountTimers(_)
CountTimers(fs) ==
    IF fs = << >> THEN 0
    ELSE (IF Head(fs).kind = "timer" THEN 1 ELSE 0) + CountTimers(Tail(fs))
RECURSIVE SumOver(_, _)
SumOver(f, S) ==
    IF S = {} THEN 0 ELSE LET x == CHOOSE y \in S : TRUE IN f[x] + SumOver(f, S \ {x})
OpenTimers == SumOver([t \in Threads |-> CountTimers(frames[t])], Threads)

\* Room for `n` more records besides those the open timers will emit.
LogEnabled(n) == nrec + OpenTimers + n <= MaxRecords

\* One leveled call, whole: what it returns to the caller (out) and what it
\* leaves in the sinks.
Call(t, method, msg, kwargs, exception) ==
    IF ~Binds(method, kwargs)
    THEN [out |-> [raised |-> Str("TypeError"), made |-> FALSE],
          console |-> console, files |-> files, emitted |-> emitted, nrec |-> nrec]
    ELSE LET level == MethodLevel(method)
             exc_info == IF method = "error" /\ Truthy(exception)
                         THEN ExcInfo(exception) ELSE None
             slots == AddContext(MakeRecord(level, msg, exc_info),
                                 get_context(current, t))
             record == SetAttrs(slots, kwargs)
             line == [id |-> nrec + 1, len |-> LineLen(record), t |-> t]
             handled == Handled(record, log_level)
             failed == {s \in handled : EmitFailure(s, record) # None}
             toConsole == "console" \in handled \ failed
             toFile(s) == s \in handled \ failed
             after(s) == EmitRotating(files[s], line, max_file_size, backup_count,
                                      empty_rollover)
             \* the stream fails at the write, after the rollover if one was due
             unwritten(s) ==
                 IF s \in handled /\ EmitFailure(s, record) = OSError
                    /\ ShouldRollover(files[s], line.len, max_file_size, empty_rollover)
                 THEN DoRollover(files[s], backup_count) ELSE files[s]
         IN [out |-> [raised |-> Propagated(record, handled, 1), made |-> TRUE,
                      id |-> nrec + 1,
                      record |-> record, slots |-> slots, at |-> clock,
                      handled |-> handled, failed |-> failed],
             console |-> IF toConsole THEN Append(console, line) ELSE console,
             files |-> [s \in FileSinks |-> IF toFile(s) THEN after(s) ELSE unwritten(s)],
             emitted |-> [s \in FileSinks |->
                             IF toFile(s) THEN EmitNote(files[s], after(s), line)
                             ELSE emitted[s]],
             nrec |-> nrec + 1]

\* The call's effect on the sinks
Emits(c) ==
    /\ console' = c.console
    /\ files' = c.files
    /\ emitted' = c.emitted
    /\ nrec' = c.nrec

\* debug / info / warning / error / critical
Log(t, method, msg, kwargs, exception) ==
    /\ Idle(t)
    /\ LogEnabled(1)
    /\ method # "error" => exception = None
    /\ LET c == Call(t, method, msg, kwargs, exception)
       IN /\ Emits(c)
          /\ last' = [t |-> t, op |-> "log", method |-> method, kwargs |-> kwargs,
                      exception |-> exception, out |-> c.out]
    /\ UNCHANGED << current, frames, nextId, clock, lock, pc, rec >>
    /\ ConfigUnchanged

(***************************************************************************)
(* The same call in the steps another thread can come between: the record  *)
(* is made, then logger.handle(record) asks each handler in turn, and each *)
(* handler emits under its own lock (Handler.handle).                      *)
(***************************************************************************)
\* Logger.callHandlers from the i-th handler on: the next one whose level
\* admits the record, 0 when the loop is over.
RECURSIVE NextHandler(_, _, _)
NextHandler(record, facade_level, i) ==
    IF i > Len(HandlerOrder) THEN 0
    ELSE IF Admits(HandlerOrder[i], record, facade_level) THEN i
    ELSE NextHandler(record, facade_level, i + 1)

\* The handler thread t is at
At(t) == HandlerOrder[rec[t].i]

\* Handler.acquire: the handler's lock is taken when no thread holds it
LockAlwaysFree(s) == TRUE
LockFree(s) == lock[s] = NoThread

StepUnchanged == UNCHANGED << current, frames, nextId, clock >> /\ ConfigUnchanged

\* _log_with_context up to self.logger.handle(record)
LogBegin(t, method, msg, kwargs, exception) ==
    /\ Idle(t)
    /\ LogEnabled(1)
    /\ method # "error" => exception = None
    /\ IF ~Binds(method, kwargs)
       THEN /\ last' = [t |-> t, op |-> "log", method |-> method, kwargs |-> kwargs,
                        exception |-> exception,
                        out |-> [raised |-> Str("TypeError"), made |-> FALSE]]
            /\ UNCHANGED << pc, rec, nrec >>
       ELSE LET exc_info == IF method = "error" /\ Truthy(exception)
                            THEN ExcInfo(exception) ELSE None
                slots == AddContext(MakeRecord(MethodLevel(method), msg, exc_info),
                                    get_context(current, t))
                record == SetAttrs(slots, kwargs)
                i == NextHandler(record, log_level, 1)
                out == [raised |-> None, made |-> TRUE, id |-> nrec + 1,
                        record |-> record, slots |-> slots, at |-> clock,
                        handled |-> Handled(record, log_level),
                        failed |-> {s \in Handled(record, log_level) :
                                       EmitFailure(s, record) # None}]
            IN /\ nrec' = nrec + 1
               /\ IF i = 0
                  THEN /\ last' = [t |-> t, op |-> "log", method |-> method,
                                   kwargs |-> kwargs, exception |-> exception,
                                   out |-> out]
                       /\ UNCHANGED << pc, rec >>
                  ELSE /\ rec' = [rec EXCEPT ![t] =
                              [kind |-> "dispatch", method |-> method, kwargs |-> kwargs,
                               exception |-> exception,
                               out |-> out, i |-> i, seen |-> None,
                               line |-> [id |-> nrec + 1, len |-> LineLen(record),
                                         t |-> t]]]
                       /\ pc' = [pc EXCEPT ![t] = "acquire"]
                       /\ UNCHANGED last
    /\ UNCHANGED << console, files, emitted, lock >>
    /\ StepUnchanged

\* Handler.handle: self.acquire()
Acquire(t) ==
    /\ pc[t] = "acquire"
    /\ LockFree(At(t))
    /\ lock' = [lock EXCEPT ![At(t)] = t]
    /\ pc' = [pc EXCEPT ![t] = IF At(t) \in FileSinks THEN "check" ELSE "write"]
    /\ UNCHANGED << console, files, emitted, rec, nrec, last >>
    /\ StepUnchanged

\* BaseRotatingHandler.emit: `if self.shouldRollover(record)`, which renders
\* the record and reads the size of the file; a rendering that fails ends
\* the emit in handleError.
CheckSize(t) ==
    /\ pc[t] = "check"
    /\ LET s == At(t)
       IN /\ rec' = [rec EXCEPT ![t].seen = files[s]]
          /\ pc' = [pc EXCEPT ![t] =
                       IF ~StructuredRenders(rec[t].out.record) THEN "release"
                       ELSE IF ShouldRollover(files[s], rec[t].line.len, max_file_size,
                                              empty_rollover)
                            THEN "rollover" ELSE "write"]
    /\ UNCHANGED << console, files, emitted, lock, nrec, last >>
    /\ StepUnchanged

\* BaseRotatingHandler.emit: self.doRollover()
Rollover(t) ==
    /\ pc[t] = "rollover"
    /\ files' = [files EXCEPT ![At(t)] = DoRollover(@, backup_count)]
    /\ pc' = [pc EXCEPT ![t] = "write"]
    /\ UNCHANGED << console, emitted, lock, rec, nrec, last >>
    /\ StepUnchanged

\* StreamHandler.emit: one stream.write of the whole line, and flush
WriteLine(t) ==
    /\ pc[t] = "write"
    /\ LET s == At(t)
       IN IF EmitFailure(s, rec[t].out.record) # None
          THEN UNCHANGED << console, files, emitted >>
          ELSE IF s \in FileSinks
          THEN /\ files' = [files EXCEPT ![s] = Write(@, rec[t].line)]
               /\ emitted' = [emitted EXCEPT ![s] =
                                 EmitNote(rec[t].seen, files'[s], rec[t].line)]
               /\ UNCHANGED console
          ELSE /\ console' = Append(console, rec[t].line)
               /\ UNCHANGED << files, emitted >>
    /\ pc' = [pc EXCEPT ![t] = "release"]
    /\ UNCHANGED << lock, rec, nrec, last >>
    /\ StepUnchanged

\* Handler.handle: self.release(), then the next handler of callHandlers or
\* the return of the call
Release(t) ==
    /\ pc[t] = "release"
    /\ lock' = [lock EXCEPT ![At(t)] = NoThread]
    /\ LET j == NextHandler(rec[t].out.record, log_level, rec[t].i + 1)
       IN IF j = 0
          THEN /\ pc' = [pc EXCEPT ![t] = "idle"]
               /\ rec' = [rec EXCEPT ![t] = None]
               /\ last' = [t |-> t, op |-> "log", method |-> rec[t].method,
                           kwargs |-> rec[t].kwargs, exception |-> rec[t].exception,
                           out |-> rec[t].out]
          ELSE /\ pc' = [pc EXCEPT ![t] = "acquire"]
               /\ rec' = [rec EXCEPT ![t].i = j, ![t].seen = None]
               /\ UNCHANGED last
    /\ UNCHANGED << console, files, emitted, nrec >>
    /\ StepUnchanged

(***************************************************************************)
(* timer(operation_name)                                                   *)
(***************************************************************************)
\* (time.time() - start_time) * 1000
DurationSeconds(start_time, now) == Num(now - start_time)
Duration(start_time, now) == Num((now - start_time) * 1000)

\* `raise` in the except block: the exception being handled goes on
ReraiseAsRuntimeError(e) ==
    [kind |-> "exception", type |-> "RuntimeError", message |-> "timer failed",
     isException |-> TRUE, truthy |-> TRUE]
Reraise(e) == e

\* with logger.timer(op):   -- up to the yield
TimerEnter(t, op) ==
    /\ Idle(t)
    /\ Len(frames[t]) < MaxDepth
    /\ LogEnabled(2)
    /\ LET c == Call(t, "info", "Starting " \o op, [operation |-> Str(op)], None)
       IN /\ Emits(c)
          /\ frames' = [frames EXCEPT ![t] = Append(MarkNested(@),
                           [kind |-> "timer", start_time |-> clock, operation |-> op,
                            started |-> c.out, nested |-> FALSE])]
          /\ last' = [t |-> t, op |-> "timer_enter", out |-> c.out]
    /\ UNCHANGED << current, nextId, clock, lock, pc, rec >>
    /\ ConfigUnchanged

\* leaving the with block of timer(): normally (outcome None), or because
\* the body raised `outcome`
TimerExit(t, outcome) ==
    /\ Idle(t)
    /\ frames[t] # << >>
    /\ LET f == frames[t][Len(frames[t])]
           fields == [operation |-> Str(f.operation),
                      duration |-> Duration(f.start_time, clock)]
           done == [t |-> t, op |-> "timer_exit", outcome |-> outcome,
                    operation |-> f.operation, started |-> f.started,
                    entered_at |-> f.start_time, at |-> clock]
       IN /\ f.kind = "timer"
          /\ IF outcome = None
             THEN \* else: the body completed
                  LET c == Call(t, "info", "Completed " \o f.operation, fields, None)
                  IN /\ Emits(c)
                     /\ last' = [k \in DOMAIN done \cup {"raised", "calls"} |->
                                    CASE k = "raised" -> c.out.raised
                                      [] k = "calls" -> << c.out >>
                                      [] OTHER -> done[k]]
             ELSE IF outcome.isException
             THEN \* except Exception as e
                  LET c == Call(t, "error", "Failed " \o f.operation, fields, outcome)
                  IN /\ Emits(c)
                     /\ last' = [k \in DOMAIN done \cup {"raised", "calls"} |->
                                    CASE k = "raised" ->
                                           IF c.out.raised # None THEN c.out.raised
                                           ELSE Reraise(outcome)
                                      [] k = "calls" -> << c.out >>
                                      [] OTHER -> done[k]]
             ELSE \* not an Exception: no clause of the try statement takes it
                  /\ UNCHANGED << console, files, emitted, nrec >>
                  /\ last' = [k \in DOMAIN done \cup {"raised", "calls"} |->
                                 CASE k = "raised" -> outcome
                                   [] k = "calls" -> << >>
                                   [] OTHER -> done[k]]
    /\ frames' = [frames EXCEPT ![t] = SubSeq(@, 1, Len(@) - 1)]
    /\ UNCHANGED << current, nextId, clock, lock, pc, rec >>
    /\ ConfigUnchanged

\* time passes
Tick ==
    /\ clock < MaxClock
    /\ clock' = clock + 1
    /\ UNCHANGED << current, frames, last, nextId >>
    /\ SinkUnchanged /\ ConfigUnchanged

(***************************************************************************)
(* Construction.                                                           *)
(***************************************************************************)
\* Logger names: "app.db" is a child of "app" in logging's hierarchy, and a
\* record handled by a logger goes on to the handlers of its ancestors
\* (Logger.callHandlers while propagate is true, as it is by default).
Names == {"app", "app.db"}
Ancestors(name) == IF name = "app.db" THEN << "app.db", "app" >> ELSE << name >>

\* The level names tried, and log_level.upper() of each
LevelNames == {"INFO", "error", "VERBOSE", "NOTSET", "BASIC_FORMAT"}
Upper(s) == IF s = "error" THEN "ERROR" ELSE s

\* getattr(logging, NAME): the upper-case attributes of the logging module
NoAttribute == [kind |-> "AttributeError"]
LoggingAttr(NAME) ==
    CASE NAME = "DEBUG" -> Num(DEBUG)
      [] NAME = "INFO" -> Num(INFO)
      [] NAME = "WARNING" -> Num(WARNING)
      [] NAME = "WARN" -> Num(WARNING)
      [] NAME = "ERROR" -> Num(ERROR)
      [] NAME = "CRITICAL" -> Num(CRITICAL)
      [] NAME = "FATAL" -> Num(CRITICAL)
      [] NAME = "NOTSET" -> Num(0)
      [] NAME = "BASIC_FORMAT" -> Str("%(levelname)s:%(name)s:%(message)s")
      [] OTHER -> NoAttribute

\* self.logger.setLevel(self.log_level): an int is taken as it is, a str
\* must be the name of a level
ChecksLevel(v) == v.kind = "num"

\* _setup_handlers: the three handlers in the order they are added, each
\* with its stream
HandlersOf(name, level, owner) ==
    << [sink |-> "console", stream |-> "stdout", level |-> level, owner |-> owner],
       [sink |-> "file", stream |-> name \o ".log", level |-> DEBUG, owner |-> owner],
       [sink |-> "errors", stream |-> name \o "_errors.log", level |-> ERROR,
        owner |-> owner] >>

NoLogger == [level |-> 0, handlers |-> << >>]
NoLoggers == [n \in Names |-> NoLogger]

\* AdvancedLogger(name, log_level=level_name): what __init__ raises, and the
\* loggers, facades and files it leaves.  getattr comes first, then
\* setLevel, then os.makedirs and the handlers.
Constructed(reg, fac, dsk, name, level_name) ==
    LET v == LoggingAttr(Upper(level_name))
    IN IF v = NoAttribute
       THEN [raised |-> Str("AttributeError"), registry |-> reg, facades |-> fac,
             disk |-> dsk]
       ELSE IF ~ChecksLevel(v)
       THEN [raised |-> Str("ValueError"), registry |-> reg, facades |-> fac,
             disk |-> dsk]
       ELSE [raised |-> None,
             registry |-> [reg EXCEPT ![name] =
                              [level |-> v.n,
                               \* self.logger.handlers.clear(), then addHandler x3
                               handlers |-> HandlersOf(name, v.n, Len(fac) + 1)]],
             facades |-> Append(fac, [name |-> name, log_level |-> v.n, ctx |-> Unset]),
             disk |-> dsk \cup {"logs", name \o ".log", name \o "_errors.log"}]

ModelUnchanged ==
    /\ UNCHANGED << log_level, max_file_size, backup_count, empty_rollover, broken,
                    current, frames, nextId, clock >>
    /\ SinkUnchanged

\* AdvancedLogger(name, log_level=level_name)
Construct(name, level_name) ==
    /\ Len(facades) < MaxFacades
    /\ LET r == Constructed(registry, facades, disk, name, level_name)
       IN /\ registry' = r.registry
          /\ facades' = r.facades
          /\ disk' = r.disk
          /\ last' = [t |-> "t1", op |-> "construct", name |-> name,
                      level_name |-> level_name, raised |-> r.raised,
                      facade |-> IF r.raised = None THEN Len(r.facades) ELSE 0,
                      attached |-> r.registry # registry,
                      created |-> r.disk # disk]
    /\ UNCHANGED default_logger
    /\ ModelUnchanged

\* `if _default_logger is None or _default_logger.name != name`
NeedsNewAlways(dflt, fac, name) == TRUE
NeedsNew(dflt, fac, name) == dflt = 0 \/ fac[dflt].name # name

\* get_logger(name, **kwargs), kwargs being log_level=... or nothing
NoKwargs == "(none)"
GetLogger(name, kw) ==
    LET level_name == IF kw = NoKwargs THEN "INFO" ELSE kw
        r == Constructed(registry, facades, disk, name, level_name)
    IN IF NeedsNew(default_logger, facades, name)
       THEN /\ Len(facades) < MaxFacades
            /\ registry' = r.registry
            /\ facades' = r.facades
            /\ disk' = r.disk
            /\ default_logger' = IF r.raised = None THEN Len(r.facades) ELSE default_logger
            /\ last' = [t |-> "t1", op |-> "get_logger", name |-> name, kw |-> kw,
                        previous |-> default_logger, raised |-> r.raised,
                        returned |-> IF r.raised = None THEN Len(r.facades) ELSE 0,
                        attached |-> r.registry # registry,
                        created |-> r.disk # disk]
            /\ ModelUnchanged
       ELSE /\ last' = [t |-> "t1", op |-> "get_logger", name |-> name, kw |-> kw,
                        previous |-> default_logger, raised |-> None,
                        returned |-> default_logger,
                        attached |-> FALSE, created |-> FALSE]
            /\ UNCHANGED << registry, facades, disk, default_logger >>
            /\ ModelUnchanged

\* set_context(...) / clear_context() through the i-th facade
FacadeSetContext(i, c) ==
    /\ i \in 1 .. Len(facades)
    /\ facades[i].ctx # c
    /\ facades' = [facades EXCEPT ![i].ctx = c]
    /\ last' = [t |-> "t1", op |-> "facade_set_context", facade |-> i]
    /\ UNCHANGED << registry, disk, default_logger >>
    /\ ModelUnchanged

\* get_context() through the i-th facade
Visible(i) == IF facades[i].ctx = Unset THEN None ELSE facades[i].ctx

\* Logger.callHandlers: the handlers that are handed a record of level
\* levelno, those of the logger and then those of its ancestors
RECURSIVE CalledHandlers(_, _, _, _)
CalledHandlers(reg, chain, i, levelno) ==
    IF i > Len(chain) THEN << >>
    ELSE SelectSeq(reg[chain[i]].handlers, LAMBDA h : levelno >= h.level)
             \o CalledHandlers(reg, chain, i + 1, levelno)

\* A leveled call through the i-th facade, as far as self.logger.handle
Handle(i, method) ==
    /\ i \in 1 .. Len(facades)
    /\ last' = [t |-> "t1", op |-> "handle", facade |-> i, method |-> method,
                written |-> CalledHandlers(registry, Ancestors(facades[i].name), 1,
                                           MethodLevel(method))]
    /\ UNCHANGED << registry, facades, disk, default_logger >>
    /\ ModelUnchanged


Init ==
    /\ log_level \in Levels
    /\ max_file_size \in 0 .. MaxFileSize
    /\ backup_count \in 0 .. MaxBackups
    /\ empty_rollover \in BOOLEAN
    /\ current = [t \in Threads |-> Unset]
    /\ frames = [t \in Threads |-> << >>]
    /\ last = NoCall
    /\ nextId = 0
    /\ clock = 0
    /\ console = << >>
    /\ files = [s \in FileSinks |->
                   [cur |-> << >>,
                    backups |-> [i \in 1 .. backup_count |-> NoFile],
                    rolls |-> 0, evicted |-> 0, writes |-> 0]]
    /\ emitted = [s \in FileSinks |-> NoEmit]
    /\ lock = [s \in Sinks |-> NoThread]
    /\ pc = [t \in Threads |-> "idle"]
    /\ rec = [t \in Threads |-> None]
    /\ broken = {}
    /\ LET r == Constructed(NoLoggers, << >>, {}, "app", LevelName(log_level))
       IN /\ registry = r.registry
          /\ facades = r.facades
          /\ disk = r.disk
    /\ default_logger = 0
    /\ nrec = 0

\* The context store alone, the facade's configuration fixed.
InitCtx ==
    /\ Init
    /\ log_level = INFO
    /\ max_file_size = 0
    /\ backup_count = 0
    /\ empty_rollover = TRUE

\* One thread: scopes nested to MaxDepth, the body free to set and clear.
NextCtx ==
    \/ \E c \in OwnContexts("t1") : SetContext("t1", c)
    \/ GetContext("t1")
    \/ ClearContext("t1")
    \/ \E kw \in ContextKwargs : ContextEnter("t1", kw)
    \/ \E raising \in BOOLEAN : ContextExit("t1", raising)

SpecCtx == InitCtx /\ [][NextCtx]_vars

\* Two threads on one facade, every interleaving of their calls.
NextThreads ==
    \E t \in Threads :
        \/ \E c \in OwnContexts(t) : SetContext(t, c)
        \/ GetContext(t)
        \/ ClearContext(t)
        \/ Len(frames[t]) < MaxSharedDepth /\ ContextEnter(t, [user_id |-> Str("u1")])
        \/ ContextExit(t, FALSE)
        \/ nrec < MaxSharedCalls /\ Log(t, "info", "m", NoFields, None)

SpecThreads == InitCtx /\ [][NextThreads]_vars

\* The leveled methods of one thread, with every reserved name as a field.
Messages == { "m" }
CallerFields ==
    { NoFields } \cup { [k \in {key} |-> Str("caller")] : key \in ReservedNames \cup {"operation"} }
\* What a body can raise: an ordinary exception, an exception whose class
\* makes its instances false (defines __len__ or __bool__), and one that
\* derives from BaseException only.
ValueError == [kind |-> "exception", type |-> "ValueError", message |-> "boom",
               isException |-> TRUE, truthy |-> TRUE]
EmptyError == [kind |-> "exception", type |-> "EmptyError", message |-> "",
               isException |-> TRUE, truthy |-> FALSE]
KeyboardInterrupt == [kind |-> "exception", type |-> "KeyboardInterrupt", message |-> "",
                      isException |-> FALSE, truthy |-> TRUE]
Exceptions == { ValueError }
Failures == << KeyboardInterrupt, ValueError, EmptyError >>

InitEmit ==
    /\ Init
    /\ max_file_size = 0
    /\ backup_count = 0
    /\ empty_rollover = TRUE

Next ==
    \/ \E method \in Methods, msg \in Messages, kwargs \in CallerFields,
          exception \in {None} \cup Exceptions :
          nrec < MaxCalls /\ Log("t1", method, msg, kwargs, exception)
    \/ frames["t1"] = << >> /\ ContextEnter("t1", [user_id |-> Str("u1")])
    \/ ContextExit("t1", FALSE)

Spec == InitEmit /\ [][Next]_vars

\* One thread timing units of work that complete or fail, and logging in them.
InitTimer ==
    /\ Init
    /\ max_file_size = 0
    /\ backup_count = 0
    /\ empty_rollover = TRUE

NextTimer ==
    \/ TimerEnter("t1", "op")
    \/ \E i \in 1 .. Len(Failures) : TimerExit("t1", Failures[i])
    \/ TimerExit("t1", None)
    \/ Log("t1", "info", "m", NoFields, None)
    \/ Tick

SpecTimer == InitTimer /\ [][NextTimer]_vars

\* One thread writing lines of several lengths, under every max_file_size
\* and backup_count up to the bounds and both runtime behaviours.
RECURSIVE MsgOfLen(_)
MsgOfLen(n) == IF n = 0 THEN "" ELSE "m" \o MsgOfLen(n - 1)
SizedMessages == { MsgOfLen(n) : n \in 1 .. MaxMsgLen }

InitRot ==
    /\ Init
    /\ log_level = INFO

NextRot ==
    \E method \in {"info", "error"}, msg \in SizedMessages :
        Log("t1", method, msg, NoFields, None)

SpecRot == InitRot /\ [][NextRot]_vars

\* Two threads emitting through one facade, every interleaving of the steps
\* of their calls; the console handler at CRITICAL stays out of it.
InitConc ==
    /\ Init
    /\ log_level = CRITICAL
    /\ backup_count <= MaxSharedBackups

NextConc ==
    \E t \in Threads :
        \/ \E method \in {"info", "error"} : LogBegin(t, method, "m", NoFields, None)
        \/ Acquire(t)
        \/ CheckSize(t)
        \/ Rollover(t)
        \/ WriteLine(t)
        \/ Release(t)

SpecConc == InitConc /\ [][NextConc]_vars

\* The same two threads with the console handler at ERROR, so that an
\* error record passes all three handlers.
InitOrder ==
    /\ Init
    /\ log_level = ERROR
    /\ max_file_size \in {0, MaxMsgLen}
    /\ empty_rollover = TRUE
    /\ backup_count <= MaxSharedBackups

SpecOrder == InitOrder /\ [][NextConc]_vars

\* One thread calling error() with and without an exception, true or false,
\* and the other methods beside it, inside and outside a context scope.
InitError ==
    /\ Init
    /\ max_file_size = 0
    /\ backup_count = 0
    /\ empty_rollover = TRUE

NextError ==
    \/ \E i \in 1 .. Len(Failures), kwargs \in {NoFields, [operation |-> Str("op")]} :
           /\ Failures[i].isException
           /\ Log("t1", "error", "m", kwargs, Failures[i])
    \/ \E method \in Methods : Log("t1", method, "m", NoFields, None)
    \/ frames["t1"] = << >> /\ ContextEnter("t1", [user_id |-> Str("u1")])
    \/ ContextExit("t1", FALSE)

SpecError == InitError /\ [][NextError]_vars

\* One thread logging and timing while the streams of the sinks fail and
\* recover, and with fields that make a formatter raise.
SinkFails(S) ==
    /\ broken # S
    /\ broken' = S
    /\ UNCHANGED << log_level, max_file_size, backup_count, empty_rollover, current,
                    frames, last, nextId, clock >>
    /\ SinkUnchanged /\ ProcessUnchanged

BreakingFields ==
    { NoFields, [context |-> Str("caller")], [duration |-> Str("caller")] }

InitFail ==
    /\ Init
    /\ log_level \in {INFO, ERROR}
    /\ max_file_size = 0
    /\ backup_count = 0
    /\ empty_rollover = TRUE

NextFail ==
    \/ \E S \in SUBSET (Sinks \cup {"stderr"}) : SinkFails(S)
    \/ \E method \in {"info", "error"}, kwargs \in BreakingFields :
           nrec < MaxCalls /\ Log("t1", method, "m", kwargs, None)
    \/ TimerEnter("t1", "op")
    \/ TimerExit("t1", None)
    \/ TimerExit("t1", ValueError)

SpecFail == InitFail /\ [][NextFail]_vars

\* A process that constructs facades, directly and through get_logger, with
\* valid and invalid level names, sets contexts through them and logs.
InitBuild ==
    /\ log_level = INFO
    /\ max_file_size = 0
    /\ backup_count = 0
    /\ empty_rollover = TRUE
    /\ current = [t \in Threads |-> Unset]
    /\ frames = [t \in Threads |-> << >>]
    /\ last = NoCall
    /\ nextId = 0
    /\ clock = 0
    /\ console = << >>
    /\ files = [s \in FileSinks |->
                   [cur |-> << >>, backups |-> << >>,
                    rolls |-> 0, evicted |-> 0, writes |-> 0]]
    /\ emitted = [s \in FileSinks |-> NoEmit]
    /\ lock = [s \in Sinks |-> NoThread]
    /\ pc = [t \in Threads |-> "idle"]
    /\ rec = [t \in Threads |-> None]
    /\ nrec = 0
    /\ broken = {}
    /\ registry = NoLoggers
    /\ facades = << >>
    /\ default_logger = 0
    /\ disk = {}

NextBuild ==
    \/ \E name \in Names, level_name \in LevelNames : Construct(name, level_name)
    \/ \E name \in Names, kw \in {NoKwargs} \cup LevelNames : GetLogger(name, kw)
    \/ \E i \in 1 .. MaxFacades :
           FacadeSetContext(i, LogContext([correlation_id |-> Str("c2")], "t1"))
    \/ \E i \in 1 .. MaxFacades, method \in {"info", "error"} : Handle(i, method)

SpecBuild == InitBuild /\ [][NextBuild]_vars

(***************************************************************************)
(* C1: when a context() scope exits, normally or because its body raised,  *)
(* and whatever the body did to the slot in between, the thread's slot is  *)
(* again what it was when that scope was entered: the prior context if     *)
(* there was one, otherwise unset.  This holds of every scope and so of    *)
(* the outermost one.                                                      *)
(***************************************************************************)
C1_ScopeRestoresContext ==
    last.op = "context_exit" => current[last.t] = last.before

\* An outermost scope that had a scope nested in it and a prior context
\* before it, whose body replaced the context and then raised.
C1_Witness ==
    /\ last.op = "context_exit"
    /\ frames[last.t] = << >>
    /\ last.raised
    /\ last.nested
    /\ last.changed
    /\ last.before.kind = "LogContext"

(***************************************************************************)
(* C3: the context store is per thread.  A thread's slot, what its         *)
(* get_context() returns and the context of a record it emits only ever    *)
(* hold a context object that this thread installed itself, and a step     *)
(* changes the slot of no thread but the one that makes the call.          *)
(***************************************************************************)
C3_OwnContextOnly ==
    /\ \A t \in Threads : current[t].kind = "LogContext" => current[t].by = t
    /\ (last.op = "get_context" /\ last.result.kind = "LogContext")
           => last.result.by = last.t
    /\ (LastMade /\ last.out.record["context"] # Unset)
           => last.out.record["context"].by = last.t

C3_OnlyCallerChanges ==
    \A t \in Threads : current'[t] # current[t] => last'.t = t

C3_ContextPerThread == []C3_OwnContextOnly /\ [][C3_OnlyCallerChanges]_vars

\* Both threads hold a context at once, and one of them reads its own.
C3_Witness ==
    /\ \A t \in Threads : current[t].kind = "LogContext"
    /\ last.op = "get_context"
    /\ last.result.kind = "LogContext"
    /\ \E u \in Threads : u # last.t /\ current[u].correlation_id # last.result.correlation_id

(***************************************************************************)
(* Reading the sinks back.                                                 *)
(***************************************************************************)
\* The newest line of sink s is the line of record id.
Received(s, id) ==
    IF s = "console"
    THEN console # << >> /\ console[Len(console)].id = id
    ELSE files[s].cur # << >> /\ files[s].cur[Len(files[s].cur)].id = id

(***************************************************************************)
(* C2: a record whose level is below the facade's configured level is      *)
(* written to no sink: not the console, not the all-levels file, not the   *)
(* errors file.                                                            *)
(***************************************************************************)
C2_BelowFacadeLevelNowhere ==
    (LastMade /\ MethodLevel(last.method) < log_level)
        => \A s \in Sinks : ~Received(s, last.out.id)

(***************************************************************************)
(* C4: the reserved attributes of an emitted record come from their own    *)
(* slots.  A caller field with a reserved name leaves the record's         *)
(* reserved attributes, the reserved keys of its structured rendering and  *)
(* the sinks it reaches as they are without that field.                    *)
(***************************************************************************)
C4_ReservedFromSlots ==
    LastMade =>
        /\ \A a \in ReservedNames : last.out.record[a] = last.out.slots[a]
        /\ \A k \in ReservedNames \cap JsonKeys :
               StructuredFormat(last.out.record, last.out.at)[k]
                   = StructuredFormat(last.out.slots, last.out.at)[k]
        /\ \A s \in Sinks : Received(s, last.out.id) <=> s \in Handled(last.out.slots, log_level)

(***************************************************************************)
(* C5: a leveled call that passes a field whose name is a reserved name    *)
(* returns normally: nothing is raised to the caller.                      *)
(***************************************************************************)
C5_ReservedFieldNeverRaises ==
    (last.op = "log" /\ DOMAIN last.kwargs \cap ReservedNames # {})
        => last.out.raised = None

(***************************************************************************)
(* C6 as stated: for every failure of the unit of work inside timer(op),   *)
(* whatever its kind, an INFO "Starting op" record was emitted before the  *)
(* work, exactly one ERROR record carrying the error and the elapsed       *)
(* milliseconds is emitted at exit, no "Completed op" record is, and the   *)
(* caller observes the original failure unchanged.                         *)
(***************************************************************************)
TimerFailed == last.op = "timer_exit" /\ last.outcome # None

StartingEmitted ==
    /\ last.started.made
    /\ last.started.record["levelno"] = Num(INFO)
    /\ last.started.record["msg"] = Str("Starting " \o last.operation)
    /\ last.started.at = last.entered_at
    /\ "file" \in last.started.handled

NoCompleted ==
    \A i \in 1 .. Len(last.calls) :
        last.calls[i].record["msg"] # Str("Completed " \o last.operation)

\* The one record emitted at exit: ERROR, "Failed op", with the elapsed time
OneFailedRecord ==
    /\ Len(last.calls) = 1
    /\ last.calls[1].made
    /\ last.calls[1].id > last.started.id
    /\ last.calls[1].record["levelno"] = Num(ERROR)
    /\ last.calls[1].record["msg"] = Str("Failed " \o last.operation)
    /\ last.calls[1].record["duration"] = Num((last.at - last.entered_at) * 1000)
    /\ {"file", "errors"} \subseteq last.calls[1].handled

C6_EveryFailureLogged ==
    TimerFailed =>
        /\ StartingEmitted
        /\ OneFailedRecord
        /\ last.calls[1].record["exc_info"] = ExcInfo(last.outcome)
        /\ NoCompleted
        /\ last.raised = last.outcome

(***************************************************************************)
(* C6 as amended: for every failure of the unit of work inside timer(op),  *)
(* the "Starting op" INFO record was emitted before the work, no           *)
(* "Completed op" record is emitted, and the caller observes the original  *)
(* failure unchanged.  If the failure is an Exception, exactly one ERROR   *)
(* record "Failed op" with the elapsed milliseconds is emitted at exit; it *)
(* carries the error when the exception object is true, as exceptions are  *)
(* unless their class makes them false.  If the failure is not an          *)
(* Exception (KeyboardInterrupt, SystemExit, GeneratorExit), no record is  *)
(* emitted at exit.                                                        *)
(***************************************************************************)
C6_TimerFailure ==
    TimerFailed =>
        /\ StartingEmitted
        /\ NoCompleted
        /\ last.raised = last.outcome
        /\ IF last.outcome.isException
           THEN /\ OneFailedRecord
                /\ last.calls[1].record["exc_info"] =
                       IF last.outcome.truthy THEN ExcInfo(last.outcome) ELSE None
           ELSE last.calls = << >>

\* A unit of work that logged, took time and failed with a ValueError.
C6_Witness ==
    /\ TimerFailed
    /\ last.outcome = ValueError
    /\ Len(last.calls) = 1
    /\ last.calls[1].id > last.started.id + 1
    /\ last.calls[1].record["duration"].n > 0
    /\ last.raised = ValueError

Emitted(s) == emitted[s].id # 0
Backups(s) == {i \in DOMAIN files[s].backups : files[s].backups[i].exists}
RECURSIVE LinesIn(_, _)
LinesIn(b, i) == IF i < 1 THEN 0 ELSE Len(b[i].lines) + LinesIn(b, i - 1)
Stored(s) == Len(files[s].cur) + LinesIn(files[s].backups, backup_count)

\* The backups as one rollover leaves them: the file that was current is
\* .1, every older backup is one number up, the one past backup_count gone.
Shifted(s) ==
    [i \in 1 .. backup_count |->
        IF i = 1 THEN [exists |-> TRUE, lines |-> emitted[s].prior]
        ELSE emitted[s].prior_backups[i - 1]]

(***************************************************************************)
(* C8 as stated: writing a line of N bytes to a file of size S rotates     *)
(* before the write exactly when S + N exceeds max_file_size, and then     *)
(* exactly once; the whole line goes to one file, the fresh one after a    *)
(* rotation.                                                               *)
(***************************************************************************)
C8_RotatesWhenExceeds ==
    \A s \in FileSinks : Emitted(s) =>
        LET e == emitted[s]
        IN /\ e.rolled = (IF e.size + e.n > max_file_size THEN 1 ELSE 0)
           /\ files[s].cur = (IF e.rolled = 1 THEN << >> ELSE e.prior) \o << e.line >>

(***************************************************************************)
(* C8 as amended: writing a line of N bytes (its newline counted) to a     *)
(* file of size S > 0 rotates before the write exactly when max_file_size  *)
(* is positive and S + N >= max_file_size, and then exactly once; with     *)
(* max_file_size = 0 nothing ever rotates; an empty file (S = 0) is        *)
(* rotated under the same condition only on a runtime that rolls empty     *)
(* files over.  The whole line goes to one file, the current one: the      *)
(* fresh file after a rotation when backup_count >= 1, the same file       *)
(* reopened when backup_count = 0.                                         *)
(***************************************************************************)
C8_RotatesWhenReaches ==
    \A s \in FileSinks : Emitted(s) =>
        LET e == emitted[s]
            due == max_file_size > 0 /\ e.size + e.n >= max_file_size
        IN /\ e.rolled \in {0, 1}
           /\ e.size > 0 => (e.rolled = 1 <=> due)
           /\ e.size = 0 => (e.rolled = 1 <=> (due /\ empty_rollover))
           /\ e.size = SumLen(e.prior)
           /\ e.n = e.line.len
           /\ files[s].cur = (IF e.rolled = 1 /\ backup_count > 0 THEN << >> ELSE e.prior)
                                 \o << e.line >>

\* A line that brings a non-empty file exactly to max_file_size: rotated,
\* and alone in the fresh file.
C8_Witness ==
    \E s \in FileSinks :
        /\ Emitted(s)
        /\ emitted[s].size > 0
        /\ emitted[s].size + emitted[s].n = max_file_size
        /\ emitted[s].rolled = 1
        /\ backup_count >= 1
        /\ files[s].cur = << emitted[s].line >>

(***************************************************************************)
(* C9 as stated: for every backup_count >= 0, each rotation makes the      *)
(* current file the newest backup, shifts the existing backups, discards   *)
(* those beyond backup_count and opens a new empty current file; there are *)
(* never more than backup_count backups, and after backup_count + 1        *)
(* rotations exactly backup_count of them.                                 *)
(***************************************************************************)
C9_RotationAnyBackupCount ==
    \A s \in FileSinks :
        /\ Cardinality(Backups(s)) <= backup_count
        /\ files[s].rolls >= backup_count + 1 => Cardinality(Backups(s)) = backup_count
        /\ (Emitted(s) /\ emitted[s].rolled = 1) =>
               /\ files[s].cur = << emitted[s].line >>
               /\ files[s].backups = Shifted(s)

(***************************************************************************)
(* C9 as amended: for every backup_count >= 1, each rotation makes the     *)
(* current file the newest backup, shifts the existing backups, discards   *)
(* the one beyond backup_count and opens a new empty current file; with    *)
(* backup_count = 0 a rotation only reopens the current file, which keeps  *)
(* its content, and nothing is discarded.  For every backup_count >= 0     *)
(* there are never more than backup_count backups, after backup_count + 1  *)
(* rotations there are exactly backup_count, and the lines in the current  *)
(* file and the backups are the lines written less those discarded.        *)
(***************************************************************************)
C9_RotationKeepsBackups ==
    \A s \in FileSinks :
        /\ Cardinality(Backups(s)) <= backup_count
        /\ files[s].rolls >= backup_count + 1 => Cardinality(Backups(s)) = backup_count
        /\ Stored(s) + files[s].evicted = files[s].writes
        /\ (Emitted(s) /\ emitted[s].rolled = 1) =>
               IF backup_count >= 1
               THEN /\ files[s].cur = << emitted[s].line >>
                    /\ files[s].backups = Shifted(s)
                    /\ files[s].evicted = emitted[s].prior_evicted
                          + Len(emitted[s].prior_backups[backup_count].lines)
               ELSE /\ files[s].cur = emitted[s].prior \o << emitted[s].line >>
                    /\ files[s].evicted = 0

\* backup_count + 1 rotations done with backup_count >= 1: the oldest file
\* is gone, its line with it.
C9_Witness ==
    \E s \in FileSinks :
        /\ backup_count >= 1
        /\ files[s].rolls = backup_count + 1
        /\ Cardinality(Backups(s)) = backup_count
        /\ files[s].evicted > 0
        /\ emitted[s].rolled = 1

(***************************************************************************)
(* C10: threads emitting through one facade are serialized around the      *)
(* whole check-size / rotate / write sequence of each rotating file sink.  *)
(* Under every interleaving at most one thread is inside that sequence of  *)
(* a sink; the write a thread makes finds the file as its own size check   *)
(* and its own rotation (at most one) left it, so its line stands whole    *)
(* in one file, behind the lines that were there or alone in the fresh     *)
(* file; with rotation and backups on, no file holding more than one line  *)
(* has reached max_file_size; and the lines in the current file and its    *)
(* backups number those written less those discarded with evicted backups. *)
(***************************************************************************)
Inside(t, s) == pc[t] \in {"check", "rollover", "write", "release"} /\ At(t) = s

\* Thread t has written to file sink s and not yet released its lock
JustWrote(t, s) == pc[t] = "release" /\ At(t) = s /\ emitted[s].id = rec[t].line.id

Whole(file) == max_file_size > 0 /\ Len(file) > 1 => SumLen(file) < max_file_size

C10_WritersSerialized ==
    /\ \A s \in Sinks : \A t, u \in Threads : (Inside(t, s) /\ Inside(u, s)) => t = u
    /\ \A s \in Sinks : \A t \in Threads : Inside(t, s) <=> lock[s] = t
    /\ \A s \in FileSinks : \A t \in Threads : JustWrote(t, s) =>
           LET e == emitted[s]
           IN /\ e.rolled \in {0, 1}
              /\ e.rolled = 1 <=> ShouldRollover(rec[t].seen, e.n, max_file_size,
                                                 empty_rollover)
              /\ files[s].cur = (IF e.rolled = 1 /\ backup_count > 0 THEN << >> ELSE e.prior)
                                    \o << rec[t].line >>
              /\ files[s].writes = rec[t].seen.writes + 1
    /\ \A s \in FileSinks : backup_count > 0 =>
           /\ Whole(files[s].cur)
           /\ \A i \in Backups(s) : Whole(files[s].backups[i].lines)
    /\ \A s \in FileSinks : Stored(s) + files[s].evicted = files[s].writes

\* One thread has rotated the all-levels file and is about to write while
\* the other waits for the handler's lock with a record of its own; the
\* file had a line written to it before.
C10_Witness ==
    \E t, u \in Threads :
        /\ t # u
        /\ pc[t] = "write" /\ At(t) = "file"
        /\ files["file"].rolls > rec[t].seen.rolls
        /\ pc[u] = "acquire" /\ At(u) = "file"
        /\ lock["file"] = t
        /\ files["file"].writes > 0

(***************************************************************************)
(* C11: a record emitted while a context is current for the thread carries *)
(* that context and its correlation id as the attributes `context` and     *)
(* `correlation_id`, and its structured rendering has them under those     *)
(* keys; a record emitted while no context is set carries neither.         *)
(***************************************************************************)
C11_RecordCarriesContext ==
    LastMade =>
        LET record == last.out.record
            json == StructuredFormat(record, last.out.at)
            ctx == current[last.t]
        IN IF ctx # Unset
           THEN /\ record["context"] = ctx
                /\ record["correlation_id"] = ctx.correlation_id
                /\ json["context"] = AsDict(ctx)
                /\ json["correlation_id"] = ctx.correlation_id
           ELSE /\ record["context"] = Unset
                /\ record["correlation_id"] = Unset
                /\ json["context"] = Unset
                /\ json["correlation_id"] = Unset

(***************************************************************************)
(* C12: error(msg, exception=E) with an error value E makes a record at    *)
(* ERROR level whose structured rendering has an exception object with     *)
(* the type, the message and the traceback of E, and the record goes to    *)
(* the errors file as well as to the all-levels file.                      *)
(***************************************************************************)
WithErrorValue == LastMade /\ last.method = "error" /\ last.exception # None

C12_ErrorCarriesException ==
    WithErrorValue =>
        LET E == last.exception
            json == StructuredFormat(last.out.record, last.out.at)
        IN /\ last.out.record["levelno"] = Num(ERROR)
           /\ json["level"] = Str("ERROR")
           /\ json["exception"] # Unset
           /\ json["exception"].type = E.type
           /\ json["exception"].message = E.message
           /\ json["exception"].traceback # ""
           /\ \A s \in FileSinks : s \in last.out.handled /\ Received(s, last.out.id)

(***************************************************************************)
(* C13: when the unit of work inside timer(op) completes normally, the     *)
(* timer has emitted exactly two records, in this order: the INFO          *)
(* "Starting op" record before the work and, at exit, one INFO             *)
(* "Completed op" record carrying the elapsed milliseconds; it emits no    *)
(* ERROR record, and nothing is raised to the caller.                      *)
(***************************************************************************)
TimerCompleted == last.op = "timer_exit" /\ last.outcome = None

C13_TimerCompletion ==
    TimerCompleted =>
        /\ StartingEmitted
        /\ last.started.record["levelno"] # Num(ERROR)
        /\ Len(last.calls) = 1
        /\ last.calls[1].made
        /\ last.calls[1].id > last.started.id
        /\ last.calls[1].record["levelno"] = Num(INFO)
        /\ last.calls[1].record["msg"] = Str("Completed " \o last.operation)
        /\ last.calls[1].record["operation"] = Str(last.operation)
        /\ last.calls[1].record["duration"] = Num((last.at - last.entered_at) * 1000)
        /\ StructuredFormat(last.calls[1].record, last.at)["duration_ms"]
               = Num((last.at - last.entered_at) * 1000)
        /\ "file" \in last.calls[1].handled
        /\ "errors" \notin last.calls[1].handled
        /\ last.raised = None

\* A unit of work that logged a record of its own, took time and completed.
C13_Witness ==
    /\ TimerCompleted
    /\ Len(last.calls) = 1
    /\ last.calls[1].id > last.started.id + 1
    /\ last.calls[1].record["duration"].n > 0
    /\ Received("file", last.calls[1].id)

(***************************************************************************)
(* C14: a sink whose stream fails, or whose formatter fails on the record, *)
(* raises nothing into the caller.  Every leveled call that makes a record *)
(* returns normally, timer entry returns normally, timer exit raises       *)
(* nothing but the failure of the unit of work itself; and the handlers    *)
(* that did not fail on the record still write it.                         *)
(***************************************************************************)
C14_SinkFailureNeverPropagates ==
    /\ LastMade =>
           /\ last.out.raised = None
           /\ \A s \in last.out.handled :
                  Received(s, last.out.id) <=> s \notin last.out.failed
    /\ last.op = "timer_enter" => (last.out.made /\ last.out.raised = None)
    /\ last.op = "timer_exit" =>
           /\ last.raised = last.outcome
           /\ \A i \in 1 .. Len(last.calls) : last.calls[i].raised = None

(***************************************************************************)
(* C15: entering a context() scope yields the correlation id of the        *)
(* context it has just installed.  The id is the caller's correlation_id   *)
(* where one was passed, otherwise a newly generated one, different from   *)
(* the id of every context of the enclosing scopes; and                    *)
(* get_context().correlation_id in the scope is the id yielded.            *)
(***************************************************************************)
\* The correlation ids of the contexts the scopes enclosing the innermost
\* one of thread t installed or found.
EnclosingIds(t) ==
    { frames[t][i].new_context.correlation_id : i \in 1 .. Len(frames[t]) - 1 }
        \cup { frames[t][i].old_context.correlation_id :
                  i \in { j \in 1 .. Len(frames[t]) : frames[t][j].old_context # None } }

C15_ScopeYieldsCorrelationId ==
    last.op = "context_enter" =>
        LET t == last.t
            installed == get_context(current, t)
        IN /\ installed.kind = "LogContext"
           /\ installed = frames[t][Len(frames[t])].new_context
           /\ installed.correlation_id = last.yielded
           /\ IF "correlation_id" \in DOMAIN last.kwargs
              THEN last.yielded = last.kwargs.correlation_id
              ELSE /\ last.yielded.kind = "uuid"
                   /\ last.yielded \notin EnclosingIds(t)

\* A scope entered without a correlation_id inside a scope that was given
\* one: the id yielded is new.  And a scope entered with the caller's own.
C15_Witness ==
    /\ last.op = "context_enter"
    /\ Len(frames[last.t]) = 2
    /\ "correlation_id" \notin DOMAIN last.kwargs
    /\ Str("c1") \in EnclosingIds(last.t)
    /\ last.yielded.kind = "uuid"
    /\ current[last.t].correlation_id = last.yielded


(***************************************************************************)
(* C16.                                                                    *)
(***************************************************************************)
FiveLevels == {"DEBUG", "INFO", "WARNING", "ERROR", "CRITICAL"}

\* C16: constructing a facade with a level name that is not one of
\* DEBUG/INFO/WARNING/ERROR/CRITICAL (in any letter case) raises, returns no
\* facade, attaches no handler and creates no log file or directory.
C16_InvalidLevelIsFatal ==
    (/\ last.op = "construct"
     /\ Upper(last.level_name) \notin FiveLevels)
        => /\ last.raised # None
           /\ last.facade = 0
           /\ ~last.attached
           /\ ~last.created


(***************************************************************************)
(* C17.                                                                    *)
(***************************************************************************)
SinksOf(handlers) == [i \in DOMAIN handlers |-> handlers[i].sink]

\* C17: after any sequence of constructions every logger that a facade was
\* built on holds exactly the three handlers console, file, errors in that
\* order, and a record dispatched through a facade is written at most once
\* to each stream.
C17_ThreeHandlersNoDuplicate ==
    /\ \A n \in Names :
          registry[n].handlers # << >> => SinksOf(registry[n].handlers) = HandlerOrder
    /\ last.op = "handle" =>
          \A i, j \in DOMAIN last.written :
             i # j => last.written[i].stream # last.written[j].stream


(***************************************************************************)
(* C18: a nested context() scope does not inherit from the enclosing one.  *)
(* Inside the inner scope the current context holds only what the inner    *)
(* entry was given: every optional identifier not passed is None,          *)
(* service_name and version are the defaults, and the correlation id is    *)
(* the caller's or else a new one, different from the enclosing scope's.   *)
(* When the inner scope exits, the enclosing scope's context, with its     *)
(* correlation id, is current again.                                       *)
(***************************************************************************)
OptionalIds == {"user_id", "session_id", "request_id"}

C18_NestedScopeDoesNotInherit ==
    /\ (last.op = "context_enter" /\ Len(frames[last.t]) >= 2) =>
          LET t == last.t
              inner == get_context(current, t)
              outer == frames[t][Len(frames[t]) - 1].new_context
              found == frames[t][Len(frames[t])].old_context
          IN /\ inner.kind = "LogContext"
             /\ \A k \in OptionalIds :
                   inner[k] = IF k \in DOMAIN last.kwargs THEN last.kwargs[k] ELSE None
             /\ inner.service_name = Str("logging-service")
             /\ inner.version = Str("1.0.0")
             /\ IF "correlation_id" \in DOMAIN last.kwargs
                THEN inner.correlation_id = last.kwargs.correlation_id
                ELSE /\ inner.correlation_id.kind = "uuid"
                     /\ inner.correlation_id # outer.correlation_id
                     /\ found # None => inner.correlation_id # found.correlation_id
    /\ (last.op = "context_exit" /\ frames[last.t] # << >>) =>
          LET t == last.t
              outer == frames[t][Len(frames[t])].new_context
          IN last.before = outer =>
                /\ get_context(current, t) = outer
                /\ get_context(current, t).correlation_id = outer.correlation_id

\* An inner scope entered with only a correlation_id inside a scope that
\* was entered with a user_id: the inner context has no user_id.
C18_Witness ==
    /\ last.op = "context_enter"
    /\ Len(frames[last.t]) = 2
    /\ frames[last.t][1].new_context.user_id = Str("u1")
    /\ frames[last.t][2].old_context = frames[last.t][1].new_context
    /\ "user_id" \notin DOMAIN last.kwargs
    /\ current[last.t].user_id = None


(***************************************************************************)
(* C19: get_logger keeps one process-wide instance.  A call with the name  *)
(* of the current instance returns that instance and ignores its keyword   *)
(* arguments: nothing is constructed and nothing is raised, whatever       *)
(* log_level it was given.  A call with another name, or the first call,   *)
(* that returns has constructed a new instance and made it the current     *)
(* one.  The instance returned always has the name requested, and a        *)
(* context set through a replaced instance is not visible through the new  *)
(* one, whose context is empty.                                            *)
(***************************************************************************)
SameName == last.previous # 0 /\ facades[last.previous].name = last.name

C19_GetLoggerSingleInstance ==
    last.op = "get_logger" =>
        /\ SameName =>
              /\ last.raised = None
              /\ last.returned = last.previous
              /\ ~last.attached /\ ~last.created
        /\ last.raised = None =>
              /\ last.returned \in 1 .. Len(facades)
              /\ default_logger = last.returned
              /\ facades[last.returned].name = last.name
        /\ (last.raised = None /\ ~SameName) =>
              /\ last.returned # last.previous
              /\ last.returned = Len(facades)
              /\ last.attached
              /\ Visible(last.returned) = None
        /\ last.raised # None => default_logger = last.previous

\* The instance named "app" had a context set through it and was then
\* replaced by get_logger("app.db"): the new instance shows no context.
C19_Witness ==
    /\ last.op = "get_logger"
    /\ last.raised = None
    /\ last.previous # 0
    /\ facades[last.previous].name = "app"
    /\ last.name = "app.db"
    /\ Visible(last.previous) # None
    /\ Visible(last.returned) = None
    /\ last.returned # last.previous


(***************************************************************************)
(* C20: emission order is kept per thread and per sink.  Of two lines of   *)
(* one thread that a sink holds, the line of the earlier call is earlier   *)
(* in the same file or in an older backup, whatever the other thread does  *)
(* in between.  And one record passes the handlers in the order console,   *)
(* file, errors: its line is in no sink the thread has not reached yet,    *)
(* and it is in every sink the thread is past that admits it (for a file   *)
(* sink, as long as no backup has been discarded).                         *)
(***************************************************************************)
\* The lines of backups i, i - 1, .. 1: the oldest backup first
RECURSIVE OldestFirst(_, _)
OldestFirst(b, i) == IF i < 1 THEN << >> ELSE b[i].lines \o OldestFirst(b, i - 1)

\* All the lines a sink holds, in the order they were written
History(s) ==
    IF s = "console" THEN console
    ELSE OldestFirst(files[s].backups, Len(files[s].backups)) \o files[s].cur

Holds(s, id) == \E k \in DOMAIN History(s) : History(s)[k].id = id

C20_EmissionOrderPreserved ==
    /\ \A s \in Sinks : \A i, j \in DOMAIN History(s) :
          (i < j /\ History(s)[i].t = History(s)[j].t)
              => History(s)[i].id < History(s)[j].id
    /\ \A t \in Threads : ~Idle(t) =>
          \A j \in DOMAIN HandlerOrder :
             LET s == HandlerOrder[j]
                 past == j < rec[t].i \/ (j = rec[t].i /\ pc[t] = "release")
             IN /\ Holds(s, rec[t].line.id) => past
                /\ (/\ past
                    /\ Admits(s, rec[t].out.record, log_level)
                    /\ s \in FileSinks => files[s].evicted = 0)
                       => Holds(s, rec[t].line.id)

\* The all-levels file holds a line of one thread between two lines of the
\* other, rotated at least once, and the later of the two has been written
\* to the console and the file by a thread now at the errors handler.
C20_Witness ==
    \E t, u \in Threads :
        /\ t # u
        /\ \E i, j, k \in DOMAIN History("file") :
              /\ i < j /\ j < k
              /\ History("file")[i].t = t
              /\ History("file")[j].t = u
              /\ History("file")[k].t = t
        /\ files["file"].rolls > 0
        /\ pc[t] = "write" /\ At(t) = "errors"
        /\ Holds("console", rec[t].line.id)
        /\ Holds("file", rec[t].line.id)

====
